---- MODULE Spec2Model ----
(***************************************************************************)
(* Spring-damper physics (physics.js), pointer interaction (input.js) and  *)
(* curve evaluation (bezier.js) of the interactive Bezier curve.           *)
(*                                                                         *)
(* Numbers.  The program computes in float64.  Coordinates, velocities and *)
(* anchors are modelled in fixed point, as integers counting hundredths    *)
(* of a pixel; a product with a decimal coefficient (0.15, 0.88, 0.995,    *)
(* 0.8, 0.1) is rounded to the nearest representable value, ties to even,  *)
(* as IEEE-754 rounds.  The two tunables are modelled as float values with *)
(* their special values (NaN, +Infinity, -Infinity) because Math.min and   *)
(* Math.max treat those specially.                                         *)
(*                                                                         *)
(* Arrays are functions over 0 .. n-1 (JavaScript indices).                *)
(***************************************************************************)
EXTENDS Integers, Sequences, FiniteSets, TLC

VARIABLES
    controlPoints,     \* bezier.controlPoints: array of {x, y}
    velocities,        \* physics.velocities
    restPositions,     \* physics.restPositions (the anchors)
    springConstant,    \* physics.springConstant (float, thousandths)
    damping,           \* physics.damping (float, thousandths)
    mouse,             \* input.mouse: last recorded pointer position
    isInteracting,     \* input.isInteracting
    activePointIndex,  \* input.activePointIndex
    fault,             \* TRUE once an operation has thrown
    curvePoints,       \* bezier.curvePoints: the sampled points kept
    outcome,           \* what the last curve operation returned or threw
    op,                \* the operation performed last, with its arguments
    inj,               \* the applyForceToPoint calls made by that operation
    nops               \* number of operations performed

vars == <<controlPoints, velocities, restPositions, springConstant, damping,
          mouse, isInteracting, activePointIndex, fault, curvePoints,
          outcome, op, inj, nops>>

physVars == <<velocities, restPositions>>
inputVars == <<mouse, isInteracting, activePointIndex>>
tuneVars == <<springConstant, damping>>
curveVars == <<curvePoints, outcome>>

-----------------------------------------------------------------------------
(* Bounds of the model *)

MaxOps == 5
MaxTuneOps == 2
MaxSettleSteps == 8

-----------------------------------------------------------------------------
(* Fixed-point numbers *)

Px(n) == n * 100

Pt(x, y) == [x |-> Px(x), y |-> Px(y)]

Zero == [x |-> 0, y |-> 0]

\* n / d rounded to the nearest integer, ties to even (d > 0)
RoundDiv(n, d) ==
    LET q == n \div d
        r == n % d
    IN  IF 2 * r < d THEN q
        ELSE IF 2 * r > d THEN q + 1
        ELSE IF q % 2 = 0 THEN q ELSE q + 1

\* a * (m / 1000), rounded
Times(a, m) == RoundDiv(a * m, 1000)

ArrLen(a) == Cardinality({i \in DOMAIN a : i >= 0})

\* a[i] = v, creating the element when the array has none at i
Store(a, i, v) == [j \in DOMAIN a \cup {i} |-> IF j = i THEN v ELSE a[j]]

-----------------------------------------------------------------------------
(* Float values of the tunables *)

Num(n) == [kind |-> "num", v |-> n]
NaN == [kind |-> "nan", v |-> 0]
PosInf == [kind |-> "inf", v |-> 1]
NegInf == [kind |-> "inf", v |-> -1]

FLess(a, b) ==
    CASE a.kind = "num" /\ b.kind = "num" -> a.v < b.v
      [] a.kind = "inf" /\ b.kind = "num" -> a.v < 0
      [] a.kind = "num" /\ b.kind = "inf" -> b.v > 0
      [] OTHER -> a.v < b.v

MathMin(a, b) ==
    IF a.kind = "nan" \/ b.kind = "nan" THEN NaN
    ELSE IF FLess(b, a) THEN b ELSE a

MathMax(a, b) ==
    IF a.kind = "nan" \/ b.kind = "nan" THEN NaN
    ELSE IF FLess(a, b) THEN b ELSE a

-----------------------------------------------------------------------------
(* Program constants *)

SpringDefault == 150
DampingDefault == 880
MouseInfluence == 800
VelocityKick == 100
Friction == 995
SpringMin == 10
SpringMax == 500
DampingMin == 700
DampingMax == 990
InteractionRadius == 80

-----------------------------------------------------------------------------
(* Inputs *)

DemoPoints == (0 :> Pt(100, 100)) @@ (1 :> Pt(200, 50)) @@
              (2 :> Pt(300, 150)) @@ (3 :> Pt(400, 100))

ShortPoints == (0 :> Pt(100, 100)) @@ (1 :> Pt(200, 50))

PointSets == {DemoPoints, ShortPoints}

\* pointer positions: the initial one; on P1; near both P1 and P2; at
\* distance exactly 80 from P2; near P2 only
PointerXY == {Pt(0, 0), Pt(200, 50), Pt(250, 100), Pt(300, 230), Pt(320, 150)}

ForceTargets == {Pt(250, 80), Pt(200, 50)}

Indices == {-1, 0, 1, 2, 3, 5}

\* arguments of the two setters, in thousandths, and the special values
TuneArgs == {Num(-100), Num(0), Num(5), Num(10), Num(150), Num(500), Num(501),
             Num(699), Num(700), Num(880), Num(990), Num(991), Num(2000),
             NaN, PosInf, NegInf}

\* control-point sets handed to initialize in the settling runs
SettlePoints == {Pt(200, 50), Pt(150, 220), Pt(0, 0)}

SettleSets ==
    {(0 :> Pt(100, 100)) @@ (1 :> p1) @@ (2 :> p2) @@ (3 :> Pt(400, 100)) :
        p1 \in SettlePoints, p2 \in SettlePoints \cup {Pt(300, 150)}}
    \cup {ShortPoints}

-----------------------------------------------------------------------------
(* PhysicsSystem *)

\* setupControlPoints: zero velocity and a copy of the position per point
SetupVelocities(cp) == [i \in DOMAIN cp |-> Zero]

\* anchors that share the first point's position instead of copying each
SetupRestPositions_first(cp) == [i \in DOMAIN cp |-> cp[0]]

SetupRestPositions(cp) == [i \in DOMAIN cp |-> cp[i]]

\* one axis of update(): returns <<new position, new velocity>>
UpdateAxis(p, v, r, k, c) ==
    LET displacement == p - r
        springForce == 0 - Times(displacement, k)
        dampingForce == 0 - Times(v, c)
        acceleration == springForce + dampingForce
        v1 == v + acceleration
    IN  <<p + v1, Times(v1, Friction)>>

\* the body of update()'s loop for point i
UpdatePoint(cp, vel, rest, i, k, c) ==
    IF i >= ArrLen(cp) THEN [cp |-> cp, vel |-> vel, fault |-> FALSE]
    ELSE IF i \notin DOMAIN vel \/ i \notin DOMAIN rest
         THEN [cp |-> cp, vel |-> vel, fault |-> TRUE]
    ELSE LET ax == UpdateAxis(cp[i].x, vel[i].x, rest[i].x, k, c)
             ay == UpdateAxis(cp[i].y, vel[i].y, rest[i].y, k, c)
         IN  [cp |-> [cp EXCEPT ![i] = [x |-> ax[1], y |-> ay[1]]],
              vel |-> [vel EXCEPT ![i] = [x |-> ax[2], y |-> ay[2]]],
              fault |-> FALSE]

\* update(): points 1 and 2 in turn; a throw at point 1 ends the call
Update(cp, vel, rest, k, c) ==
    LET s1 == UpdatePoint(cp, vel, rest, 1, k, c)
    IN  IF s1.fault THEN s1 ELSE UpdatePoint(s1.cp, s1.vel, rest, 2, k, c)

\* a guard without the length test
ForceGuard_noLength(index, cp) == ~(index < 1 \/ index > 2)

\* the early return of applyForceToPoint, negated
ForceGuard(index, cp) == ~(index < 1 \/ index > 2 \/ index >= ArrLen(cp))

\* an anchor nudged by the offset of the target from the point, not from
\* the anchor
ApplyForceToPoint_fromPoint(index, t, cp, vel, rest) ==
    IF ~ForceGuard(index, cp) THEN [vel |-> vel, rest |-> rest, fault |-> FALSE]
    ELSE IF index \notin DOMAIN rest \/ index \notin DOMAIN vel
         THEN [vel |-> vel, rest |-> rest, fault |-> TRUE]
    ELSE LET r == rest[index]
             p == cp[index]
             v == vel[index]
         IN  [rest |-> [rest EXCEPT ![index] =
                          [x |-> r.x + Times(t.x - p.x, MouseInfluence),
                           y |-> r.y + Times(t.y - p.y, MouseInfluence)]],
              vel |-> [vel EXCEPT ![index] =
                          [x |-> v.x + Times(t.x - p.x, VelocityKick),
                           y |-> v.y + Times(t.y - p.y, VelocityKick)]],
              fault |-> FALSE]

\* applyForceToPoint
ApplyForceToPoint(index, t, cp, vel, rest) ==
    IF ~ForceGuard(index, cp) THEN [vel |-> vel, rest |-> rest, fault |-> FALSE]
    ELSE IF index \notin DOMAIN rest \/ index \notin DOMAIN vel
         THEN [vel |-> vel, rest |-> rest, fault |-> TRUE]
    ELSE LET r == rest[index]
             p == cp[index]
             v == vel[index]
         IN  [rest |-> [rest EXCEPT ![index] =
                          [x |-> r.x + Times(t.x - r.x, MouseInfluence),
                           y |-> r.y + Times(t.y - r.y, MouseInfluence)]],
              vel |-> [vel EXCEPT ![index] =
                          [x |-> v.x + Times(t.x - p.x, VelocityKick),
                           y |-> v.y + Times(t.y - p.y, VelocityKick)]],
              fault |-> FALSE]

\* resetPoint
ResetPoint(index, vel, rest) ==
    IF index < ArrLen(rest) THEN Store(vel, index, Zero) ELSE vel

SpringClamp(k) == MathMax(Num(SpringMin), MathMin(Num(SpringMax), k))

DampingClamp(c) == MathMax(Num(DampingMin), MathMin(Num(DampingMax), c))

-----------------------------------------------------------------------------
(* InputHandler *)

\* a hit test that includes the rim
Hit_inclusive(m, p, radius) ==
    LET dx == m.x - p.x
        dy == m.y - p.y
    IN  dx * dx + dy * dy <= Px(radius) * Px(radius)

\* Math.sqrt(dx^2 + dy^2) < radius, compared on the squares
Hit(m, p, radius) ==
    LET dx == m.x - p.x
        dy == m.y - p.y
    IN  dx * dx + dy * dy < Px(radius) * Px(radius)

\* a loop that lets the later hit overwrite the earlier one
FirstHit_last(m, cp) ==
    IF 2 < ArrLen(cp) /\ Hit(m, cp[2], InteractionRadius) THEN 2
    ELSE IF 1 < ArrLen(cp) /\ Hit(m, cp[1], InteractionRadius) THEN 1
    ELSE -1

\* the loop of handleMouseDown: the first of 1, 2 that is hit, or -1
FirstHit(m, cp) ==
    IF 1 < ArrLen(cp) /\ Hit(m, cp[1], InteractionRadius) THEN 1
    ELSE IF 2 < ArrLen(cp) /\ Hit(m, cp[2], InteractionRadius) THEN 2
    ELSE -1

\* the guard shared by handleMouseMove and update()
Dragging == isInteracting /\ activePointIndex # -1

Call(index, t) == [index |-> index, x |-> t.x, y |-> t.y]

\* the return value of a curve operation, or the Error it threw
NoOutcome == [threw |-> FALSE, point |-> Zero, points |-> <<>>, number |-> 0]

Thrown == [threw |-> TRUE, point |-> Zero, points |-> <<>>, number |-> 0]

OpRec(name, index, x, y) == [name |-> name, index |-> index, x |-> x, y |-> y]

-----------------------------------------------------------------------------
(* BezierCurve.  The parameter t and the Bernstein weights are fixed-point  *)
(* numbers counting ten-thousandths, each product rounded as it is formed. *)

SampleDensity == 200

\* i / density as a parameter value
Ratio(i, density) == RoundDiv(i * 10000, density)

\* product of two weights
Frac(a, b) == RoundDiv(a * b, 10000)

\* weight w applied to the coordinate c
Weigh(w, c) == RoundDiv(w * c, 10000)

\* floor of the square root of n, sought in lo .. hi
RECURSIVE SqrtFloor(_, _, _)
SqrtFloor(n, lo, hi) ==
    IF lo >= hi THEN lo
    ELSE LET mid == (lo + hi + 1) \div 2
         IN  IF mid * mid <= n THEN SqrtFloor(n, mid, hi)
             ELSE SqrtFloor(n, lo, mid - 1)

\* Math.sqrt, rounded to the nearest representable value
Sqrt(n) ==
    LET f == SqrtFloor(n, 0, 46340)
    IN  IF n - f * f > f THEN f + 1 ELSE f

\* a check that lets longer arrays through
LengthInvalid_tooShort(cp) == ArrLen(cp) < 4

\* this.controlPoints.length !== 4
LengthInvalid(cp) == ArrLen(cp) # 4

\* calculatePoint(t)
CalculatePoint(cp, t) ==
    IF LengthInvalid(cp) THEN Thrown
    ELSE LET u == 10000 - t
             u2 == Frac(u, u)
             u3 == Frac(u2, u)
             t2 == Frac(t, t)
             t3 == Frac(t2, t)
             x == Weigh(u3, cp[0].x) + Weigh(Frac(3 * u2, t), cp[1].x)
                    + Weigh(Frac(3 * u, t2), cp[2].x) + Weigh(t3, cp[3].x)
             y == Weigh(u3, cp[0].y) + Weigh(Frac(3 * u2, t), cp[1].y)
                    + Weigh(Frac(3 * u, t2), cp[2].y) + Weigh(t3, cp[3].y)
         IN  [NoOutcome EXCEPT !.point = [x |-> x, y |-> y]]

\* calculateTangent(t)
CalculateTangent(cp, t) ==
    IF LengthInvalid(cp) THEN Thrown
    ELSE LET u == 10000 - t
             u2 == Frac(u, u)
             t2 == Frac(t, t)
             dx == Weigh(3 * u2, cp[1].x - cp[0].x)
                     + Weigh(Frac(6 * u, t), cp[2].x - cp[1].x)
                     + Weigh(3 * t2, cp[3].x - cp[2].x)
             dy == Weigh(3 * u2, cp[1].y - cp[0].y)
                     + Weigh(Frac(6 * u, t), cp[2].y - cp[1].y)
                     + Weigh(3 * t2, cp[3].y - cp[2].y)
         IN  [NoOutcome EXCEPT !.point = [x |-> dx, y |-> dy]]

\* calculateNormalizedTangent(t): components in ten-thousandths
CalculateNormalizedTangent(cp, t) ==
    LET tangent == CalculateTangent(cp, t)
    IN  IF tangent.threw THEN Thrown
        ELSE LET length == Sqrt(tangent.point.x * tangent.point.x
                                  + tangent.point.y * tangent.point.y)
             IN  IF length = 0 THEN [NoOutcome EXCEPT !.point = Zero]
                 ELSE [NoOutcome EXCEPT !.point =
                          [x |-> RoundDiv(tangent.point.x * 10000, length),
                           y |-> RoundDiv(tangent.point.y * 10000, length)]]

\* sampleCurvePoints(): this.curvePoints is emptied first; the loop throws
\* at its first calculatePoint when the length is invalid.  The record
\* holds the cache left behind in .points
SampleCurvePoints(cp) ==
    IF SampleDensity < 0 THEN NoOutcome
    ELSE IF CalculatePoint(cp, Ratio(0, SampleDensity)).threw THEN Thrown
    ELSE [NoOutcome EXCEPT !.points =
             [n \in 1 .. (SampleDensity + 1) |->
                 CalculatePoint(cp, Ratio(n - 1, SampleDensity)).point]]

\* the sum of calculateLength over the segments that end at points
\* lo .. hi, added up by halves
RECURSIVE SumSegments(_, _, _)
SumSegments(points, lo, hi) ==
    IF lo > hi THEN 0
    ELSE IF lo = hi
         THEN LET dx == points[lo].x - points[lo - 1].x
                  dy == points[lo].y - points[lo - 1].y
              IN  Sqrt(dx * dx + dy * dy)
    ELSE LET mid == (lo + hi) \div 2
         IN  SumSegments(points, lo, mid) + SumSegments(points, mid + 1, hi)

\* calculateLength()
CalculateLength(cp) ==
    LET sampled == SampleCurvePoints(cp)
    IN  IF sampled.threw THEN Thrown
        ELSE [sampled EXCEPT !.number = SumSegments(sampled.points, 2, Len(sampled.points))]

-----------------------------------------------------------------------------
(* Operations *)

Init ==
    /\ controlPoints \in PointSets
    /\ velocities = SetupVelocities(controlPoints)
    /\ restPositions = SetupRestPositions(controlPoints)
    /\ springConstant = Num(SpringDefault)
    /\ damping = Num(DampingDefault)
    /\ mouse = Zero
    /\ isInteracting = FALSE
    /\ activePointIndex = -1
    /\ fault = FALSE
    /\ curvePoints = <<>>
    /\ outcome = NoOutcome
    /\ op = OpRec("init", -1, 0, 0)
    /\ inj = <<>>
    /\ nops = 0

\* a re-initialization that keeps the velocities
Initialize_keepsVelocities ==
    /\ velocities' = velocities
    /\ restPositions' = SetupRestPositions(controlPoints)
    /\ op' = OpRec("initialize", -1, 0, 0)
    /\ inj' = <<>>
    /\ nops' = nops + 1
    /\ UNCHANGED curveVars
    /\ UNCHANGED <<controlPoints, tuneVars, inputVars, fault>>

\* physics.setupControlPoints(bezier.controlPoints)
Initialize ==
    /\ velocities' = SetupVelocities(controlPoints)
    /\ restPositions' = SetupRestPositions(controlPoints)
    /\ op' = OpRec("initialize", -1, 0, 0)
    /\ inj' = <<>>
    /\ nops' = nops + 1
    /\ UNCHANGED curveVars
    /\ UNCHANGED <<controlPoints, tuneVars, inputVars, fault>>

\* physics.update(bezier.controlPoints), with numeric tunables
Step ==
    /\ LET s == Update(controlPoints, velocities, restPositions,
                       springConstant.v, damping.v)
       IN  /\ controlPoints' = s.cp
           /\ velocities' = s.vel
           /\ fault' = (fault \/ s.fault)
    /\ op' = OpRec("step", -1, 0, 0)
    /\ inj' = <<>>
    /\ nops' = nops + 1
    /\ UNCHANGED curveVars
    /\ UNCHANGED <<restPositions, tuneVars, inputVars>>

InjectForce(index, t) ==
    /\ LET s == ApplyForceToPoint(index, t, controlPoints, velocities, restPositions)
       IN  /\ velocities' = s.vel
           /\ restPositions' = s.rest
           /\ fault' = (fault \/ s.fault)
    /\ op' = OpRec("injectForce", index, t.x, t.y)
    /\ inj' = <<Call(index, t)>>
    /\ nops' = nops + 1
    /\ UNCHANGED curveVars
    /\ UNCHANGED <<controlPoints, tuneVars, inputVars>>

ResetVelocity(index) ==
    /\ velocities' = ResetPoint(index, velocities, restPositions)
    /\ op' = OpRec("resetVelocity", index, 0, 0)
    /\ inj' = <<>>
    /\ nops' = nops + 1
    /\ UNCHANGED curveVars
    /\ UNCHANGED <<controlPoints, restPositions, tuneVars, inputVars, fault>>

\* a handler that drags the point itself
PointerMove_direct(e) ==
    /\ mouse' = e
    /\ IF Dragging
       THEN controlPoints' = [controlPoints EXCEPT ![activePointIndex] = e]
       ELSE UNCHANGED controlPoints
    /\ inj' = <<>>
    /\ op' = OpRec("pointerMove", -1, e.x, e.y)
    /\ nops' = nops + 1
    /\ UNCHANGED curveVars
    /\ UNCHANGED <<physVars, fault, tuneVars, isInteracting, activePointIndex>>

\* handleMouseMove: e carries the position
PointerMove(e) ==
    /\ mouse' = e
    /\ IF Dragging
       THEN LET s == ApplyForceToPoint(activePointIndex, e, controlPoints,
                                       velocities, restPositions)
            IN  /\ velocities' = s.vel
                /\ restPositions' = s.rest
                /\ fault' = (fault \/ s.fault)
                /\ inj' = <<Call(activePointIndex, e)>>
       ELSE /\ UNCHANGED <<physVars, fault>>
            /\ inj' = <<>>
    /\ op' = OpRec("pointerMove", -1, e.x, e.y)
    /\ nops' = nops + 1
    /\ UNCHANGED curveVars
    /\ UNCHANGED <<controlPoints, tuneVars, isInteracting, activePointIndex>>

\* handleMouseDown: e is not read; the hit test uses the recorded position
PointerDown(e) ==
    /\ LET i == FirstHit(mouse, controlPoints)
       IN  IF i # -1
           THEN LET s == ApplyForceToPoint(i, mouse, controlPoints,
                                           velocities, restPositions)
                IN  /\ isInteracting' = TRUE
                    /\ activePointIndex' = i
                    /\ velocities' = s.vel
                    /\ restPositions' = s.rest
                    /\ fault' = (fault \/ s.fault)
                    /\ inj' = <<Call(i, mouse)>>
           ELSE /\ UNCHANGED <<isInteracting, activePointIndex, physVars, fault>>
                /\ inj' = <<>>
    /\ op' = OpRec("pointerDown", -1, e.x, e.y)
    /\ nops' = nops + 1
    /\ UNCHANGED curveVars
    /\ UNCHANGED <<controlPoints, tuneVars, mouse>>

\* a release that forgets the flag
PointerUp_keepsFlag ==
    /\ activePointIndex' = -1
    /\ op' = OpRec("pointerUp", -1, 0, 0)
    /\ inj' = <<>>
    /\ nops' = nops + 1
    /\ UNCHANGED curveVars
    /\ UNCHANGED <<controlPoints, physVars, tuneVars, mouse, isInteracting, fault>>

\* handleMouseUp
PointerUp ==
    /\ isInteracting' = FALSE
    /\ activePointIndex' = -1
    /\ op' = OpRec("pointerUp", -1, 0, 0)
    /\ inj' = <<>>
    /\ nops' = nops + 1
    /\ UNCHANGED curveVars
    /\ UNCHANGED <<controlPoints, physVars, tuneVars, mouse, fault>>

\* a leave that forgets the index
PointerLeave_keepsIndex ==
    /\ isInteracting' = FALSE
    /\ op' = OpRec("pointerLeave", -1, 0, 0)
    /\ inj' = <<>>
    /\ nops' = nops + 1
    /\ UNCHANGED curveVars
    /\ UNCHANGED <<controlPoints, physVars, tuneVars, mouse, activePointIndex, fault>>

\* handleMouseLeave
PointerLeave ==
    /\ isInteracting' = FALSE
    /\ activePointIndex' = -1
    /\ op' = OpRec("pointerLeave", -1, 0, 0)
    /\ inj' = <<>>
    /\ nops' = nops + 1
    /\ UNCHANGED curveVars
    /\ UNCHANGED <<controlPoints, physVars, tuneVars, mouse, fault>>

\* a tick that re-applies nothing
Reapply_idle ==
    /\ inj' = <<>>
    /\ op' = OpRec("reapply", -1, 0, 0)
    /\ nops' = nops + 1
    /\ UNCHANGED curveVars
    /\ UNCHANGED <<controlPoints, physVars, fault, tuneVars, inputVars>>

\* InputHandler.update, the per-frame re-application
Reapply ==
    /\ IF Dragging
       THEN LET s == ApplyForceToPoint(activePointIndex, mouse, controlPoints,
                                       velocities, restPositions)
            IN  /\ velocities' = s.vel
                /\ restPositions' = s.rest
                /\ fault' = (fault \/ s.fault)
                /\ inj' = <<Call(activePointIndex, mouse)>>
       ELSE /\ UNCHANGED <<physVars, fault>>
            /\ inj' = <<>>
    /\ op' = OpRec("reapply", -1, 0, 0)
    /\ nops' = nops + 1
    /\ UNCHANGED curveVars
    /\ UNCHANGED <<controlPoints, tuneVars, inputVars>>

SetSpringConstant(k) ==
    /\ springConstant' = SpringClamp(k)
    /\ op' = [name |-> "setSpringConstant", arg |-> k]
    /\ inj' = <<>>
    /\ nops' = nops + 1
    /\ UNCHANGED curveVars
    /\ UNCHANGED <<controlPoints, physVars, damping, inputVars, fault>>

SetDamping(c) ==
    /\ damping' = DampingClamp(c)
    /\ op' = [name |-> "setDamping", arg |-> c]
    /\ inj' = <<>>
    /\ nops' = nops + 1
    /\ UNCHANGED curveVars
    /\ UNCHANGED <<controlPoints, physVars, springConstant, inputVars, fault>>

Next ==
    /\ nops < MaxOps
    /\ \/ Initialize
       \/ Step
       \/ \E index \in Indices, t \in ForceTargets : InjectForce(index, t)
       \/ \E index \in Indices : ResetVelocity(index)
       \/ \E e \in PointerXY : PointerMove(e)
       \/ \E e \in PointerXY : PointerDown(e)
       \/ PointerUp
       \/ PointerLeave
       \/ Reapply

Spec == Init /\ [][Next]_vars

\* the tunables surface alone
NextTune ==
    /\ nops < MaxTuneOps
    /\ \/ \E k \in TuneArgs : SetSpringConstant(k)
       \/ \E c \in TuneArgs : SetDamping(c)

SpecTune == Init /\ [][NextTune]_vars

\* initialize and step alone, on any of the settling control-point sets
InitSettle ==
    /\ controlPoints \in SettleSets
    /\ velocities = SetupVelocities(controlPoints)
    /\ restPositions = SetupRestPositions(controlPoints)
    /\ springConstant = Num(SpringDefault)
    /\ damping = Num(DampingDefault)
    /\ mouse = Zero
    /\ isInteracting = FALSE
    /\ activePointIndex = -1
    /\ fault = FALSE
    /\ curvePoints = <<>>
    /\ outcome = NoOutcome
    /\ op = OpRec("init", -1, 0, 0)
    /\ inj = <<>>
    /\ nops = 0

NextSettle ==
    /\ nops < MaxSettleSteps
    /\ \/ Initialize
       \/ Step

SpecSettle == InitSettle /\ [][NextSettle]_vars

-----------------------------------------------------------------------------
(* The curve operations *)

MaxCurveOps == 3

EmptyPoints == [i \in {} |-> Zero]

ThreePoints == (0 :> Pt(100, 100)) @@ (1 :> Pt(200, 50)) @@ (2 :> Pt(300, 150))

FivePoints == DemoPoints @@ (4 :> Pt(500, 100))

\* control-point arrays the host may install
CurveSets == {EmptyPoints, ShortPoints, ThreePoints, DemoPoints, FivePoints}

\* parameter values: 0, 1/4, 1/2, 1
TValues == {0, 2500, 5000, 10000}

\* bezier.controlPoints = [...]
SetControlPoints(cp) ==
    /\ controlPoints' = cp
    /\ op' = OpRec("setControlPoints", ArrLen(cp), 0, 0)
    /\ inj' = <<>>
    /\ nops' = nops + 1
    /\ UNCHANGED <<physVars, tuneVars, inputVars, fault, curveVars>>

Evaluate(t) ==
    /\ outcome' = CalculatePoint(controlPoints, t)
    /\ op' = OpRec("evaluate", -1, t, 0)
    /\ inj' = <<>>
    /\ nops' = nops + 1
    /\ UNCHANGED <<controlPoints, physVars, tuneVars, inputVars, fault, curvePoints>>

Derivative(t) ==
    /\ outcome' = CalculateTangent(controlPoints, t)
    /\ op' = OpRec("derivative", -1, t, 0)
    /\ inj' = <<>>
    /\ nops' = nops + 1
    /\ UNCHANGED <<controlPoints, physVars, tuneVars, inputVars, fault, curvePoints>>

NormalizedDerivative(t) ==
    /\ outcome' = CalculateNormalizedTangent(controlPoints, t)
    /\ op' = OpRec("normalizedDerivative", -1, t, 0)
    /\ inj' = <<>>
    /\ nops' = nops + 1
    /\ UNCHANGED <<controlPoints, physVars, tuneVars, inputVars, fault, curvePoints>>

\* sampleCurvePoints(): returns this.curvePoints
Sample ==
    /\ LET r == SampleCurvePoints(controlPoints)
       IN  /\ curvePoints' = r.points
           /\ outcome' = r
    /\ op' = OpRec("sample", -1, 0, 0)
    /\ inj' = <<>>
    /\ nops' = nops + 1
    /\ UNCHANGED <<controlPoints, physVars, tuneVars, inputVars, fault>>

\* calculateLength(): samples, then returns the number
ApproximateLength ==
    /\ LET r == CalculateLength(controlPoints)
       IN  /\ curvePoints' = r.points
           /\ outcome' = [r EXCEPT !.points = <<>>]
    /\ op' = OpRec("approximateLength", -1, 0, 0)
    /\ inj' = <<>>
    /\ nops' = nops + 1
    /\ UNCHANGED <<controlPoints, physVars, tuneVars, inputVars, fault>>

\* after the constructors: no control points yet
InitCurve ==
    /\ controlPoints = EmptyPoints
    /\ velocities = EmptyPoints
    /\ restPositions = EmptyPoints
    /\ springConstant = Num(SpringDefault)
    /\ damping = Num(DampingDefault)
    /\ mouse = Zero
    /\ isInteracting = FALSE
    /\ activePointIndex = -1
    /\ fault = FALSE
    /\ curvePoints = <<>>
    /\ outcome = NoOutcome
    /\ op = OpRec("init", -1, 0, 0)
    /\ inj = <<>>
    /\ nops = 0

NextCurve ==
    /\ nops < MaxCurveOps
    /\ \/ \E cp \in CurveSets : SetControlPoints(cp)
       \/ \E t \in TValues : Evaluate(t)
       \/ \E t \in TValues : Derivative(t)
       \/ \E t \in TValues : NormalizedDerivative(t)
       \/ Sample
       \/ ApproximateLength

SpecCurve == InitCurve /\ [][NextCurve]_vars

-----------------------------------------------------------------------------
(* Vocabulary of the properties *)

Idle == ~isInteracting /\ activePointIndex = -1

\* the dynamic indices the control-point array has
Dyn == {i \in {1, 2} : i < ArrLen(controlPoints)}

\* squared Euclidean distance
Dist2(a, b) == (a.x - b.x) * (a.x - b.x) + (a.y - b.y) * (a.y - b.y)

Radius2 == Px(InteractionRadius) * Px(InteractionRadius)

\* the position of the pointer at a pointer-down, as the controller holds it
Within(i) == Dist2(mouse, controlPoints[i]) < Radius2

\* v lies between a and b
Between(v, a, b) == (a <= v /\ v <= b) \/ (b <= v /\ v <= a)

-----------------------------------------------------------------------------
(* C1: control-point positions change only during step, and step changes   *)
(* only indices 1 and 2: points 0 and 3 keep their initial values forever, *)
(* and injectForce, resetVelocity, initialize and every pointer handler    *)
(* leave all positions unchanged.                                          *)

C1_PositionsFrame ==
    /\ [](\A i \in DOMAIN controlPoints \ {1, 2} : controlPoints[i] = DemoPoints[i])
    /\ [][/\ DOMAIN controlPoints' = DOMAIN controlPoints
          /\ \A i \in DOMAIN controlPoints \ {1, 2} :
                controlPoints'[i] = controlPoints[i]
          /\ (controlPoints' # controlPoints => op'.name = "step")]_vars

\* a step has moved point 1 during a drag, the end points being where they were
C1_Witness ==
    /\ op.name = "step"
    /\ isInteracting
    /\ ArrLen(controlPoints) = 4
    /\ controlPoints[1] # DemoPoints[1]
    /\ controlPoints[0] = DemoPoints[0]
    /\ controlPoints[3] = DemoPoints[3]

-----------------------------------------------------------------------------
(* C2: in Idle, a pointerDown(x, y) whose coordinates lie within the       *)
(* radius of dynamic point i moves the controller to Dragging(i) and       *)
(* performs exactly one injectForce(i, x, y) with the coordinates carried  *)
(* by that pointer-down event.                                             *)

C2_DownUsesEventCoordinates ==
    [][\A i \in Dyn :
         (/\ op'.name = "pointerDown"
          /\ Idle
          /\ Dist2([x |-> op'.x, y |-> op'.y], controlPoints[i]) < Radius2
          /\ \A j \in Dyn :
                j < i => ~(Dist2([x |-> op'.x, y |-> op'.y], controlPoints[j]) < Radius2))
         => /\ isInteracting'
            /\ activePointIndex' = i
            /\ inj' = <<[index |-> i, x |-> op'.x, y |-> op'.y]>>]_vars

-----------------------------------------------------------------------------
(* C3: pointerUp and pointerLeave put the controller in Idle from any      *)
(* state; while Idle, pointerMove and reapply inject nothing and leave     *)
(* every velocity and anchor unchanged; Idle is left only by a pointerDown *)
(* that hits a dynamic point; step never changes an anchor.                *)

C3_ReleaseStopsInjection ==
    [][/\ (op'.name \in {"pointerUp", "pointerLeave"}
            => ~isInteracting' /\ activePointIndex' = -1)
       /\ (Idle /\ op'.name \in {"pointerMove", "reapply"}
            => /\ inj' = <<>>
               /\ velocities' = velocities
               /\ restPositions' = restPositions
               /\ ~isInteracting' /\ activePointIndex' = -1)
       /\ (Idle /\ ~(~isInteracting' /\ activePointIndex' = -1)
            => op'.name = "pointerDown" /\ Len(inj') = 1 /\ inj'[1].index \in Dyn)
       /\ (op'.name = "step" => restPositions' = restPositions)]_vars

\* a reapply in Idle with the pointer on point 1, after an earlier drag has
\* moved the anchor of point 1
C3_Witness ==
    /\ op.name = "reapply"
    /\ Idle
    /\ inj = <<>>
    /\ 1 \in Dyn
    /\ Within(1)
    /\ restPositions[1] # DemoPoints[1]

-----------------------------------------------------------------------------
(* C4: in Dragging(i), every reapply performs exactly one                  *)
(* injectForce(i, px, py) with the last recorded pointer position and      *)
(* leaves the interaction state unchanged; every pointerMove in            *)
(* Dragging(i) performs one injectForce for the same i, with the position  *)
(* of the move.                                                            *)

C4_DragReapplies ==
    [][/\ (isInteracting /\ activePointIndex \in Dyn /\ op'.name = "reapply"
            => /\ inj' = <<[index |-> activePointIndex, x |-> mouse.x, y |-> mouse.y]>>
               /\ isInteracting' /\ activePointIndex' = activePointIndex
               /\ mouse' = mouse
               /\ restPositions'[activePointIndex].x =
                     restPositions[activePointIndex].x
                       + Times(mouse.x - restPositions[activePointIndex].x, MouseInfluence)
               /\ velocities'[activePointIndex].y =
                     velocities[activePointIndex].y
                       + Times(mouse.y - controlPoints[activePointIndex].y, VelocityKick))
       /\ (isInteracting /\ activePointIndex \in Dyn /\ op'.name = "pointerMove"
            => /\ inj' = <<[index |-> activePointIndex, x |-> op'.x, y |-> op'.y]>>
               /\ isInteracting' /\ activePointIndex' = activePointIndex
               /\ restPositions'[activePointIndex].x =
                     restPositions[activePointIndex].x
                       + Times(op'.x - restPositions[activePointIndex].x, MouseInfluence))]_vars

\* two ticks in a row with the pointer held still: the second reapply finds
\* the kick of the first in the velocity and injects again
C4_Witness ==
    /\ op.name = "reapply"
    /\ isInteracting
    /\ activePointIndex = 2
    /\ inj = <<[index |-> 2, x |-> mouse.x, y |-> mouse.y]>>
    /\ restPositions[2] # DemoPoints[2]

-----------------------------------------------------------------------------
(* C5: on pointerDown, whenever the pointer is within the radius of both   *)
(* dynamic points at once, the controller enters Dragging(1) and injects   *)
(* force into index 1 only: velocity and anchor of index 2 are untouched.  *)

C5_LowerIndexWins ==
    [][(op'.name = "pointerDown" /\ Dyn = {1, 2} /\ Within(1) /\ Within(2))
        => /\ isInteracting'
           /\ activePointIndex' = 1
           /\ inj' = <<[index |-> 1, x |-> mouse.x, y |-> mouse.y]>>
           /\ velocities'[2] = velocities[2]
           /\ restPositions'[2] = restPositions[2]]_vars

\* a pointerDown with the pointer within the radius of both points
C5_Witness ==
    /\ op.name = "pointerDown"
    /\ Dyn = {1, 2}
    /\ Within(1)
    /\ Within(2)
    /\ activePointIndex = 1
    /\ Len(inj) = 1

-----------------------------------------------------------------------------
(* C6: a pointerDown hits dynamic point i only when the distance from the  *)
(* pointer to the current position of point i is strictly less than the    *)
(* radius (80): in Idle, a pointerDown at distance equal to or greater     *)
(* than the radius from both dynamic points leaves the controller Idle and *)
(* all velocities and anchors unchanged.                                   *)

C6_StrictRadius ==
    [][op'.name = "pointerDown"
        => /\ (Idle /\ (\A i \in Dyn : Dist2(mouse, controlPoints[i]) >= Radius2)
                => /\ ~isInteracting' /\ activePointIndex' = -1
                   /\ inj' = <<>>
                   /\ velocities' = velocities
                   /\ restPositions' = restPositions)
           /\ (inj' # <<>>
                => /\ inj'[1].index \in Dyn
                   /\ activePointIndex' = inj'[1].index
                   /\ Dist2(mouse, controlPoints[inj'[1].index]) < Radius2)]_vars

\* a pointerDown at distance exactly 80 from point 2, and farther from
\* point 1, that left the controller Idle
C6_Witness ==
    /\ op.name = "pointerDown"
    /\ Idle
    /\ Dyn = {1, 2}
    /\ Dist2(mouse, controlPoints[2]) = Radius2
    /\ Dist2(mouse, controlPoints[1]) > Radius2
    /\ inj = <<>>

-----------------------------------------------------------------------------
(* C7: injectForce with an index outside {1, 2}, or not below the length   *)
(* of the control-point array, raises no fault and leaves every velocity,  *)
(* anchor and control-point position unchanged.                            *)

C7_OutOfRangeIgnored ==
    [][(op'.name = "injectForce"
          /\ (op'.index \notin {1, 2} \/ op'.index >= ArrLen(controlPoints)))
        => /\ ~fault'
           /\ velocities' = velocities
           /\ restPositions' = restPositions
           /\ controlPoints' = controlPoints]_vars

\* injectForce(2, ...) on an array of two points, after the anchor of
\* point 1 has been moved
C7_Witness ==
    /\ op.name = "injectForce"
    /\ op.index = 2
    /\ ArrLen(controlPoints) = 2
    /\ restPositions[1] # controlPoints[1]
    /\ ~fault

-----------------------------------------------------------------------------
(* C8: a single injectForce(1, tx, ty) moves the anchor of index 1         *)
(* strictly closer to (tx, ty) than it was, and on each axis the new       *)
(* anchor lies between the old anchor and the target.                      *)

\* the claim as stated
C8_StrictlyCloser ==
    [][(Len(inj') = 1 /\ inj'[1].index = 1 /\ 1 \in Dyn)
        => /\ Dist2(restPositions'[1], inj'[1]) < Dist2(restPositions[1], inj'[1])
           /\ Between(restPositions'[1].x, restPositions[1].x, inj'[1].x)
           /\ Between(restPositions'[1].y, restPositions[1].y, inj'[1].y)]_vars

\* as amended: strictly closer unless the anchor is already at the target,
\* where it stays
C8_CloserUnlessThere ==
    [][(Len(inj') = 1 /\ inj'[1].index = 1 /\ 1 \in Dyn)
        => /\ ((restPositions[1].x # inj'[1].x \/ restPositions[1].y # inj'[1].y)
                => Dist2(restPositions'[1], inj'[1]) < Dist2(restPositions[1], inj'[1]))
           /\ ((restPositions[1].x = inj'[1].x /\ restPositions[1].y = inj'[1].y)
                => restPositions'[1] = restPositions[1])
           /\ Between(restPositions'[1].x, restPositions[1].x, inj'[1].x)
           /\ Between(restPositions'[1].y, restPositions[1].y, inj'[1].y)]_vars

\* an injection into index 1 that left the anchor short of the target, the
\* point itself having moved away from its anchor
C8_Witness ==
    /\ Len(inj) = 1
    /\ inj[1].index = 1
    /\ 1 \in Dyn
    /\ restPositions[1].x # inj[1].x
    /\ restPositions[1] # DemoPoints[1]
    /\ controlPoints[1] # DemoPoints[1]

-----------------------------------------------------------------------------
(* C9: after any sequence of setSpringConstant and setDamping calls with   *)
(* arbitrary arguments the spring constant is within [0.01, 0.5] and the   *)
(* damping factor within [0.7, 0.99].                                      *)

C9_TunablesInRange ==
    /\ springConstant.kind = "num"
    /\ SpringMin <= springConstant.v /\ springConstant.v <= SpringMax
    /\ damping.kind = "num"
    /\ DampingMin <= damping.v /\ damping.v <= DampingMax

-----------------------------------------------------------------------------
(* C10: with the default k and c, initialize followed by steps alone never *)
(* increases the magnitude of the velocity or of the displacement from the *)
(* anchor of a dynamic point, and both are at rest (zero) after every      *)
(* step, hence within fewer than 500 steps.                                *)

Norm2(v) == v.x * v.x + v.y * v.y

Displacement(i) == [x |-> controlPoints[i].x - restPositions[i].x,
                    y |-> controlPoints[i].y - restPositions[i].y]

C10_SettlesFromInitialize ==
    [][op'.name = "step"
        => \A i \in Dyn :
              /\ Norm2(velocities'[i]) <= Norm2(velocities[i])
              /\ Norm2(Displacement(i)') <= Norm2(Displacement(i))
              /\ velocities'[i] = Zero
              /\ Displacement(i)' = Zero]_vars

\* several steps after initialize, on a set whose points are not the demo's
C10_Witness ==
    /\ op.name = "step"
    /\ nops >= 3
    /\ Dyn = {1, 2}
    /\ controlPoints[1] = Pt(150, 220)
    /\ springConstant = Num(SpringDefault)
    /\ damping = Num(DampingDefault)

-----------------------------------------------------------------------------
(* C11: initialize, after any history of steps and injections, resets the  *)
(* spring memory: for i in {1, 2} the velocity becomes (0, 0) and the      *)
(* anchor becomes the current position of point i; the anchor is a copy,   *)
(* so a later step that moves the point leaves the anchor where it was.    *)

C11_InitializeResets ==
    [][/\ (op'.name = "initialize"
            => /\ \A i \in Dyn : /\ velocities'[i] = Zero
                                 /\ restPositions'[i] = controlPoints[i]
               /\ controlPoints' = controlPoints
               /\ DOMAIN velocities' = DOMAIN controlPoints
               /\ DOMAIN restPositions' = DOMAIN controlPoints)
       /\ (op'.name = "step"
            => \A i \in Dyn : restPositions'[i] = restPositions[i])]_vars

\* an initialize after injections and steps have moved point 1 and its
\* anchor away from where they started
C11_Witness ==
    /\ op.name = "initialize"
    /\ 1 \in Dyn
    /\ controlPoints[1] # DemoPoints[1]
    /\ restPositions[1] = controlPoints[1]
    /\ velocities[1] = Zero

-----------------------------------------------------------------------------
(* C12: resetVelocity(index) with index inside the tracked range zeroes    *)
(* that index's velocity only; with index outside the tracked range, too   *)
(* large or negative, it changes no state.                                 *)

C12_ResetFrame ==
    [][op'.name = "resetVelocity"
        => /\ restPositions' = restPositions
           /\ controlPoints' = controlPoints
           /\ ~fault'
           /\ (op'.index \in 0 .. (ArrLen(restPositions) - 1)
                => /\ velocities'[op'.index] = Zero
                   /\ DOMAIN velocities' = DOMAIN velocities
                   /\ \A j \in DOMAIN velocities \ {op'.index} :
                         velocities'[j] = velocities[j])
           /\ (op'.index \notin 0 .. (ArrLen(restPositions) - 1)
                => velocities' = velocities)]_vars

-----------------------------------------------------------------------------
(* C14: in every state reachable by pointerDown, pointerMove, pointerUp,   *)
(* pointerLeave and reapply (a pointerDown while dragging included) the    *)
(* active index is -1, 1 or 2, the flag is set exactly when the index is   *)
(* 1 or 2, and the controller never injects with an index outside {1, 2}.  *)

ControllerOps == {"pointerDown", "pointerMove", "pointerUp", "pointerLeave", "reapply"}

C14_InteractionStateValid ==
    /\ activePointIndex \in {-1, 1, 2}
    /\ isInteracting <=> activePointIndex \in {1, 2}
    /\ activePointIndex \in {1, 2} => activePointIndex < ArrLen(controlPoints)
    /\ op.name \in ControllerOps => \A n \in 1 .. Len(inj) : inj[n].index \in {1, 2}

\* a pointerDown that missed while point 2 was being dragged
C14_Witness ==
    /\ op.name = "pointerDown"
    /\ inj = <<>>
    /\ isInteracting
    /\ activePointIndex = 2

-----------------------------------------------------------------------------
(* C13: every curve operation (evaluate, derivative, normalizedDerivative, *)
(* sample, approximateLength) on a control-point array whose length is not *)
(* 4 throws, returns nothing, keeps no partial list of samples and leaves  *)
(* the control points unchanged; with exactly 4 points none of them        *)
(* throws.                                                                 *)

CurveOps == {"evaluate", "derivative", "normalizedDerivative", "sample",
             "approximateLength"}

C13_InvalidCountFailsFast ==
    [][op'.name \in CurveOps
        => /\ controlPoints' = controlPoints
           /\ (ArrLen(controlPoints) # 4
                => /\ outcome'.threw
                   /\ outcome'.point = Zero
                   /\ outcome'.points = <<>>
                   /\ outcome'.number = 0
                   /\ (op'.name \in {"sample", "approximateLength"}
                        => curvePoints' = <<>>)
                   /\ (op'.name \notin {"sample", "approximateLength"}
                        => curvePoints' = curvePoints))
           /\ (ArrLen(controlPoints) = 4
                => /\ ~outcome'.threw
                   /\ (op'.name = "sample"
                        => Len(outcome'.points) = SampleDensity + 1))]_vars

\* approximateLength on five control points threw and left no samples
C13_Witness ==
    /\ op.name = "approximateLength"
    /\ ArrLen(controlPoints) = 5
    /\ outcome.threw
    /\ curvePoints = <<>>

====
